---- MODULE Spec2Model ----
(***************************************************************************)
(* Platform abstraction and runtime bootstrap layer of std:                *)
(*   library/std/src/sys/unix/mod.rs    (init, cleanup, decode_error_kind, *)
(*                                       cvt, cvt_r)                       *)
(*   library/std/src/sys/hermit/mod.rs  (decode_error_kind)                *)
(*   library/std/src/os/unix/ucred.rs   (peer_cred, three back ends)       *)
(***************************************************************************)
EXTENDS Integers, Sequences, FiniteSets, TLC

VARIABLES
    \* ---- platform (what the target's libc defines) ----
    EAGAIN,         \* numeric value of libc::EAGAIN on the target
    EWOULDBLOCK,    \* numeric value of libc::EWOULDBLOCK on the target
    \* ---- the side-channel last-error state ----
    errno,
    \* ---- error translator / result converter ----
    last,           \* the last call of decode_error_kind / cvt: its input and output
    pc_r,           \* cvt_r: "idle", "loop" (inside the loop), "returned"
    calls,          \* cvt_r: number of invocations of f so far
    hist,           \* cvt_r: what each invocation of f yielded, in order
    cvt_r_out,      \* cvt_r: the returned io::Result
    \* ---- peer credentials ----
    cred_call,      \* the last peer_cred call: back end and what the platform calls yielded
    cred_result,    \* the io::Result<UCred> it returned
    \* ---- runtime bootstrap / teardown ----
    target,         \* the cfg(target_os) family the build is for
    pc,             \* position of the bootstrap thread
    idx,            \* index of the standard descriptor the sanitization loop is at
    openfds,        \* the process's open file descriptors
    startfds,       \* the descriptors open when the current init call began
    revents,        \* POLLNVAL flag per standard descriptor, as reported by the probe
    reopened,       \* descriptors returned by the /dev/null opens of the current init call
    sigpipe,        \* disposition of SIGPIPE: "default" or "ignore"
    guard,          \* the stack-overflow guard is installed
    args,           \* the argument vector is captured
    trace,          \* the calls made by init and cleanup, in order
    initCalls,      \* number of times init was entered
    pollIntr,       \* number of times the probe was interrupted in the current init call
    abortCause,     \* why the process aborted ("none" while it has not)
    \* ---- sys/hermit ----
    hermit_last,    \* the last call into sys/hermit: operation, input and output
    hermit_calls,   \* the calls sys/hermit made into the platform and its submodules
    \* ---- iter::adapters::Take ----
    take_n0,        \* the count the adapter was created with
    take_n,         \* Take::n, the remaining count
    inner_len,      \* number of items the inner iterator holds
    inner_pos,      \* number of items the inner iterator has handed out
    inner_calls,    \* number of times the inner iterator's next was run
    yielded,        \* the items Take returned, in order (item i is the inner's i-th)
    take_ret,       \* what the last next / nth call on Take returned
    take_wrapped    \* a usize subtraction or addition in Take left 0 ..= usize::MAX

platformVars == <<EAGAIN, EWOULDBLOCK>>
errVars      == <<last, pc_r, calls, hist, cvt_r_out>>
credVars     == <<cred_call, cred_result>>
bootVars     == <<target, pc, idx, openfds, startfds, revents, reopened, sigpipe,
                  guard, args, trace, initCalls, pollIntr, abortCause>>
hermitVars   == <<hermit_last, hermit_calls>>
takeVars     == <<take_n0, take_n, inner_len, inner_pos, inner_calls, yielded,
                  take_ret, take_wrapped>>
vars         == <<EAGAIN, EWOULDBLOCK, errno, last, pc_r, calls, hist, cvt_r_out,
                  cred_call, cred_result,
                  target, pc, idx, openfds, startfds, revents, reopened, sigpipe,
                  guard, args, trace, initCalls, pollIntr, abortCause,
                  hermit_last, hermit_calls,
                  take_n0, take_n, inner_len, inner_pos, inner_calls, yielded,
                  take_ret, take_wrapped>>

(***************************************************************************)
(* Bounds of the model.                                                    *)
(***************************************************************************)
MaxCode      == 115   \* decode_error_kind is applied to the codes -MinCode..MaxCode
MinCode      == 3
MaxCalls     == 4     \* cvt_r: invocations of f explored
MaxFd        == 3     \* descriptors 0..MaxFd exist in the model
MaxPollIntr  == 2     \* interruptions of the readiness probe explored per init call
MaxInitCalls == 2     \* init calls explored (the second is the contract violation)
MaxUsize     == 7     \* usize::MAX of the model: usize is 0 .. MaxUsize, arithmetic wraps
MaxLen       == 4     \* the inner iterator of a Take holds up to MaxLen items

(***************************************************************************)
(* libc error numbers (Linux values; sys/hermit spells the same numbers    *)
(* out in its own table).  EAGAIN and EWOULDBLOCK are platform variables.  *)
(***************************************************************************)
EPERM         == 1
ENOENT        == 2
EINTR         == 4
EBADF         == 9
ENOMEM        == 12
EACCES        == 13
EEXIST        == 17
EINVAL        == 22
EPIPE         == 32
ENOSYS        == 38
EADDRINUSE    == 98
EADDRNOTAVAIL == 99
ECONNABORTED  == 103
ECONNRESET    == 104
ENOTCONN      == 107
ETIMEDOUT     == 110
ECONNREFUSED  == 111

\* The values the two aliases take across targets: equal (11 on Linux, 35 on the
\* BSD family) or distinct (targets that give EWOULDBLOCK a number of its own).
EAGAIN_Values      == {11, 35}
EWOULDBLOCK_Values == {11, 35, 41}

(***************************************************************************)
(* io::Result, Option, io::Error                                           *)
(***************************************************************************)
Some(v) == <<v>>
None    == <<>>
Ok(v)   == [ok |-> TRUE, val |-> v]
\* io::Error::from_raw_os_error(code); last_os_error() is from_raw_os_error(errno())
Err(code) == [ok |-> FALSE, code |-> code]

(***************************************************************************)
(* sys/unix: decode_error_kind.  A match takes the first arm that matches. *)
(***************************************************************************)
decode_error_kind_one_alias(code) ==
    IF code = ECONNREFUSED THEN "ConnectionRefused"
    ELSE IF code = ECONNRESET THEN "ConnectionReset"
    ELSE IF code = EPERM \/ code = EACCES THEN "PermissionDenied"
    ELSE IF code = EPIPE THEN "BrokenPipe"
    ELSE IF code = ENOTCONN THEN "NotConnected"
    ELSE IF code = ECONNABORTED THEN "ConnectionAborted"
    ELSE IF code = EADDRNOTAVAIL THEN "AddrNotAvailable"
    ELSE IF code = EADDRINUSE THEN "AddrInUse"
    ELSE IF code = ENOENT THEN "NotFound"
    ELSE IF code = EINTR THEN "Interrupted"
    ELSE IF code = EINVAL THEN "InvalidInput"
    ELSE IF code = ETIMEDOUT THEN "TimedOut"
    ELSE IF code = EEXIST THEN "AlreadyExists"
    ELSE IF code = ENOSYS THEN "Unsupported"
    ELSE IF code = ENOMEM THEN "OutOfMemory"
    ELSE IF code = EAGAIN THEN "WouldBlock"
    ELSE "Other"

decode_error_kind_no_enosys(code) ==
    IF code = ECONNREFUSED THEN "ConnectionRefused"
    ELSE IF code = ECONNRESET THEN "ConnectionReset"
    ELSE IF code = EPERM \/ code = EACCES THEN "PermissionDenied"
    ELSE IF code = EPIPE THEN "BrokenPipe"
    ELSE IF code = ENOTCONN THEN "NotConnected"
    ELSE IF code = ECONNABORTED THEN "ConnectionAborted"
    ELSE IF code = EADDRNOTAVAIL THEN "AddrNotAvailable"
    ELSE IF code = EADDRINUSE THEN "AddrInUse"
    ELSE IF code = ENOENT THEN "NotFound"
    ELSE IF code = EINTR THEN "Interrupted"
    ELSE IF code = EINVAL THEN "InvalidInput"
    ELSE IF code = ETIMEDOUT THEN "TimedOut"
    ELSE IF code = EEXIST THEN "AlreadyExists"
    ELSE IF code = ENOMEM THEN "OutOfMemory"
    ELSE IF code = EAGAIN \/ code = EWOULDBLOCK THEN "WouldBlock"
    ELSE "Other"

decode_error_kind(code) ==
    IF code = ECONNREFUSED THEN "ConnectionRefused"
    ELSE IF code = ECONNRESET THEN "ConnectionReset"
    ELSE IF code = EPERM \/ code = EACCES THEN "PermissionDenied"
    ELSE IF code = EPIPE THEN "BrokenPipe"
    ELSE IF code = ENOTCONN THEN "NotConnected"
    ELSE IF code = ECONNABORTED THEN "ConnectionAborted"
    ELSE IF code = EADDRNOTAVAIL THEN "AddrNotAvailable"
    ELSE IF code = EADDRINUSE THEN "AddrInUse"
    ELSE IF code = ENOENT THEN "NotFound"
    ELSE IF code = EINTR THEN "Interrupted"
    ELSE IF code = EINVAL THEN "InvalidInput"
    ELSE IF code = ETIMEDOUT THEN "TimedOut"
    ELSE IF code = EEXIST THEN "AlreadyExists"
    ELSE IF code = ENOSYS THEN "Unsupported"
    ELSE IF code = ENOMEM THEN "OutOfMemory"
    ELSE IF code = EAGAIN \/ code = EWOULDBLOCK THEN "WouldBlock"
    ELSE "Other"

(***************************************************************************)
(* sys/hermit: decode_error_kind, a chain of guarded arms on literals.     *)
(***************************************************************************)
hermit_decode_error_kind(code) ==
    IF code = 13 THEN "PermissionDenied"
    ELSE IF code = 98 THEN "AddrInUse"
    ELSE IF code = 99 THEN "AddrNotAvailable"
    ELSE IF code = 11 THEN "WouldBlock"
    ELSE IF code = 103 THEN "ConnectionAborted"
    ELSE IF code = 111 THEN "ConnectionRefused"
    ELSE IF code = 104 THEN "ConnectionReset"
    ELSE IF code = 17 THEN "AlreadyExists"
    ELSE IF code = 4 THEN "Interrupted"
    ELSE IF code = 22 THEN "InvalidInput"
    ELSE IF code = 2 THEN "NotFound"
    ELSE IF code = 107 THEN "NotConnected"
    ELSE IF code = 1 THEN "PermissionDenied"
    ELSE IF code = 32 THEN "BrokenPipe"
    ELSE IF code = 110 THEN "TimedOut"
    ELSE "Other"

\* io::Error::kind() of an error made from a raw platform code
kind(e) == decode_error_kind(e.code)

(***************************************************************************)
(* sys/unix: IsMinusOne, cvt                                               *)
(***************************************************************************)
\* the integer types IsMinusOne is implemented for, by width in bits
IntWidths == {8, 16, 32}
MinOf(w) == IF w = 32 THEN (-1073741824) - 1073741824 ELSE -(2 ^ (w - 1))
MaxOf(w) == IF w = 32 THEN 1073741823 + 1073741824 ELSE (2 ^ (w - 1)) - 1
\* the values of width w the model applies cvt to
ValuesOf(w) == {MinOf(w), MinOf(w) + 1, -100, -2, -1, 0, 1, 2, 100, MaxOf(w) - 1, MaxOf(w)}

is_negative(t) == t < 0

is_minus_one(t) == t = -1

\* os_errno: what errno() reads at the time of the call
cvt(t, os_errno) ==
    IF is_minus_one(t) THEN Err(os_errno) ELSE Ok(t)

(***************************************************************************)
(* sys/unix: cvt_nz.  () is the empty tuple.                               *)
(***************************************************************************)
cvt_nz_last_os_error(error) == IF error = 0 THEN Ok(<<>>) ELSE Err(errno)

cvt_nz(error) == IF error = 0 THEN Ok(<<>>) ELSE Err(error)

(***************************************************************************)
(* sys/unix: cvt_r                                                         *)
(***************************************************************************)
\* the arm `Err(ref e) if e.kind() == ErrorKind::Interrupted => {}` goes round again
cvt_r_retry_any_error(r) == ~r.ok

cvt_r_retries_capped(r) == ~r.ok /\ kind(r) = "Interrupted" /\ calls < 2

cvt_r_retries(r) == ~r.ok /\ kind(r) = "Interrupted"

(***************************************************************************)
(* os/unix/ucred.rs: UCred and the three peer_cred back ends.  Each takes   *)
(* what the platform calls yielded and what errno() reads afterwards.      *)
(***************************************************************************)
UCred(uid, gid, pid) == [uid |-> uid, gid |-> gid, pid |-> pid]

UcredSize == 12    \* mem::size_of::<libc::ucred>(): pid_t, uid_t, gid_t
PidSize   == 4     \* mem::size_of::<pid_t>()

impl_linux_peer_cred_ignores_size(ret, ucred_size, ucred, os_errno) ==
    IF ret = 0
    THEN Ok(UCred(ucred.uid, ucred.gid, Some(ucred.pid)))
    ELSE Err(os_errno)

impl_linux_peer_cred(ret, ucred_size, ucred, os_errno) ==
    IF ret = 0 /\ ucred_size = UcredSize
    THEN Ok(UCred(ucred.uid, ucred.gid, Some(ucred.pid)))
    ELSE Err(os_errno)

impl_bsd_peer_cred(ret, uid, gid, os_errno) ==
    IF ret = 0 THEN Ok(UCred(uid, gid, None)) ELSE Err(os_errno)

impl_mac_peer_cred_best_effort(ret, uid, gid, ret2, pid_size, pid, os_errno) ==
    IF ret # 0 THEN Err(os_errno)
    ELSE IF ret2 = 0 /\ pid_size = PidSize
         THEN Ok(UCred(uid, gid, Some(pid)))
         ELSE Ok(UCred(uid, gid, None))

\* ret, uid, gid: what getpeereid yielded; ret2, pid_size, pid: what the
\* LOCAL_PEERPID getsockopt yielded (issued only when ret = 0)
impl_mac_peer_cred(ret, uid, gid, ret2, pid_size, pid, os_errno) ==
    IF ret # 0 THEN Err(os_errno)
    ELSE IF ret2 = 0 /\ pid_size = PidSize
         THEN Ok(UCred(uid, gid, Some(pid)))
         ELSE Err(os_errno)

(***************************************************************************)
(* Initial state                                                           *)
(***************************************************************************)
\* the value of a result variable before the call has returned
NoResult == [none |-> TRUE]
NoCall == [op |-> "none", w |-> 0, arg |-> 0, errno |-> 0, out |-> "none"]
NoCred == [backend |-> "none", ret |-> 0, uid |-> 0, gid |-> 0,
           ret2 |-> 0, size |-> 0, pid |-> 0]

ErrIdle ==
    /\ last = NoCall
    /\ pc_r = "idle"
    /\ calls = 0
    /\ hist = <<>>
    /\ cvt_r_out = NoResult

CredIdle ==
    /\ cred_call = NoCred
    /\ cred_result = "none"

StdFds == {0, 1, 2}
Fds    == 0 .. MaxFd

BootIdle ==
    /\ pc = "start"
    /\ idx = 0
    /\ startfds = openfds
    /\ revents = [fd \in StdFds |-> FALSE]
    /\ reopened = <<>>
    /\ sigpipe = "default"
    /\ guard = FALSE
    /\ args = FALSE
    /\ trace = <<>>
    /\ initCalls = 0
    /\ pollIntr = 0
    /\ abortCause = "none"

HermitIdle ==
    /\ hermit_last = [op |-> "none", arg |-> 0, out |-> "none"]
    /\ hermit_calls = <<>>

\* no adapter made yet
TakeIdle ==
    /\ take_n0 = 0
    /\ take_n = 0
    /\ inner_len = 0
    /\ inner_pos = 0
    /\ inner_calls = 0
    /\ yielded = <<>>
    /\ take_ret = None
    /\ take_wrapped = FALSE

LinuxPlatform ==
    /\ EAGAIN = 11
    /\ EWOULDBLOCK = 11
    /\ target = "linux"
    /\ openfds = StdFds

(***************************************************************************)
(* Error translator and result converter: the operations                   *)
(***************************************************************************)
ErrnoValues == {0, EINTR, ENOENT, EBADF, 11}
FValues     == {-2, -1, 0, 7}      \* what the operation given to cvt_r returns

Decode ==
    /\ pc_r = "idle"
    /\ \E code \in (-MinCode) .. MaxCode :
          last' = [op |-> "decode_error_kind", w |-> 32, arg |-> code, errno |-> errno,
                   out |-> decode_error_kind(code)]
    /\ UNCHANGED <<errno, pc_r, calls, hist, cvt_r_out>>
    /\ UNCHANGED <<hermitVars, takeVars, platformVars, credVars, bootVars>>

HermitDecode ==
    /\ pc_r = "idle"
    /\ \E code \in (-MinCode) .. MaxCode :
          last' = [op |-> "hermit_decode_error_kind", w |-> 32, arg |-> code,
                   errno |-> errno, out |-> hermit_decode_error_kind(code)]
    /\ UNCHANGED <<errno, pc_r, calls, hist, cvt_r_out>>
    /\ UNCHANGED <<hermitVars, takeVars, platformVars, credVars, bootVars>>

\* cvt(t) for a t some platform call returned, that call having left errno = e
Cvt ==
    /\ pc_r = "idle"
    /\ \E w \in IntWidths : \E t \in ValuesOf(w) : \E e \in ErrnoValues :
          /\ errno' = e
          /\ last' = [op |-> "cvt", w |-> w, arg |-> t, errno |-> e, out |-> cvt(t, e)]
    /\ UNCHANGED <<pc_r, calls, hist, cvt_r_out>>
    /\ UNCHANGED <<hermitVars, takeVars, platformVars, credVars, bootVars>>

\* cvt_nz(error) for a code some platform call returned; errno is whatever
\* earlier calls left
CvtNz ==
    /\ pc_r = "idle"
    /\ \E error \in (-MinCode) .. MaxCode :
          last' = [op |-> "cvt_nz", w |-> 32, arg |-> error, errno |-> errno,
                   out |-> cvt_nz(error)]
    /\ UNCHANGED <<errno, pc_r, calls, hist, cvt_r_out>>
    /\ UNCHANGED <<hermitVars, takeVars, platformVars, credVars, bootVars>>

CvtRCall ==
    /\ pc_r = "idle"
    /\ pc_r' = "loop"
    /\ calls' = 0
    /\ hist' = <<>>
    /\ last' = [op |-> "cvt_r", w |-> 32, arg |-> 0, errno |-> errno, out |-> "none"]
    /\ UNCHANGED <<errno, cvt_r_out>>
    /\ UNCHANGED <<hermitVars, takeVars, platformVars, credVars, bootVars>>

\* one turn of the loop: f() is invoked, cvt is applied, the match decides
CvtRLoop ==
    /\ pc_r = "loop"
    /\ calls < MaxCalls
    /\ \E t \in FValues : \E e \in ErrnoValues :
          LET r == cvt(t, e) IN
          /\ errno' = e
          /\ calls' = calls + 1
          /\ hist' = Append(hist, [ret |-> t, errno |-> e])
          /\ IF cvt_r_retries(r)
             THEN /\ pc_r' = "loop"
                  /\ UNCHANGED cvt_r_out
             ELSE /\ pc_r' = "returned"
                  /\ cvt_r_out' = r
    /\ UNCHANGED last
    /\ UNCHANGED <<hermitVars, takeVars, platformVars, credVars, bootVars>>

InitErr ==
    /\ EAGAIN \in EAGAIN_Values
    /\ EWOULDBLOCK \in EWOULDBLOCK_Values
    /\ errno = 0
    /\ target = "linux"
    /\ openfds = StdFds
    /\ ErrIdle /\ CredIdle /\ BootIdle /\ HermitIdle /\ TakeIdle

NextErr == Decode \/ HermitDecode \/ Cvt \/ CvtNz \/ CvtRCall \/ CvtRLoop

SpecErr == InitErr /\ [][NextErr]_vars

(***************************************************************************)
(* Peer credentials: the operations                                        *)
(***************************************************************************)
RetCodes   == {-1, 0, 1}
Sizes      == {0, 4, 8, 12, 16}
Uids       == {0, 1000}
Gids       == {0, 1000}
Pids       == {1, 4242}
CredErrnos == {EBADF, ENOTCONN}

\* errno after a platform call that returned ret and, failing, set errno to e
ErrnoAfter(ret, e, before) == IF ret = 0 THEN before ELSE e

PeerCredLinux ==
    /\ \E ret \in RetCodes : \E size \in Sizes : \E e \in CredErrnos :
       \E u \in Uids : \E g \in Gids : \E p \in Pids :
          /\ errno' = ErrnoAfter(ret, e, errno)
          /\ cred_call' = [backend |-> "linux", ret |-> ret, uid |-> u, gid |-> g,
                           ret2 |-> 0, size |-> size, pid |-> p]
          /\ cred_result' = impl_linux_peer_cred(ret, size,
                                [pid |-> p, uid |-> u, gid |-> g], errno')
    /\ UNCHANGED <<hermitVars, takeVars, platformVars, errVars, bootVars>>

PeerCredBsd ==
    /\ \E ret \in RetCodes : \E e \in CredErrnos : \E u \in Uids : \E g \in Gids :
          /\ errno' = ErrnoAfter(ret, e, errno)
          /\ cred_call' = [backend |-> "bsd", ret |-> ret, uid |-> u, gid |-> g,
                           ret2 |-> 0, size |-> 0, pid |-> 0]
          /\ cred_result' = impl_bsd_peer_cred(ret, u, g, errno')
    /\ UNCHANGED <<hermitVars, takeVars, platformVars, errVars, bootVars>>

PeerCredMac ==
    /\ \E ret \in RetCodes : \E e \in CredErrnos : \E u \in Uids : \E g \in Gids :
       \E ret2 \in RetCodes : \E size \in Sizes : \E e2 \in CredErrnos : \E p \in Pids :
          LET after1 == ErrnoAfter(ret, e, errno)
              \* the second call is issued only when the first succeeded
              after2 == IF ret = 0 THEN ErrnoAfter(ret2, e2, after1) ELSE after1
          IN
          /\ errno' = after2
          /\ cred_call' = [backend |-> "mac", ret |-> ret, uid |-> u, gid |-> g,
                           ret2 |-> IF ret = 0 THEN ret2 ELSE 0,
                           size |-> IF ret = 0 THEN size ELSE PidSize,
                           pid  |-> IF ret = 0 THEN p ELSE 1]
          /\ cred_result' = impl_mac_peer_cred(ret, u, g, ret2, size, p, after2)
    /\ UNCHANGED <<hermitVars, takeVars, platformVars, errVars, bootVars>>

InitCred ==
    /\ LinuxPlatform
    /\ errno = 0
    /\ ErrIdle /\ CredIdle /\ BootIdle /\ HermitIdle /\ TakeIdle

NextCred == PeerCredLinux \/ PeerCredBsd \/ PeerCredMac

SpecCred == InitCred /\ [][NextCred]_vars

(***************************************************************************)
(* Properties of the peer-credential back ends (under SpecCred)            *)
(***************************************************************************)

\* C1: with the peer-uid-plus-pid back end, when getpeereid succeeds with uid u
\* and gid g and the LOCAL_PEERPID getsockopt fails or returns an unexpected
\* size, peer_cred returns Ok(UCred{uid: u, gid: g, pid: None}), never an Err.
C1_PidIsBestEffort ==
    (/\ cred_call.backend = "mac"
     /\ cred_call.ret = 0
     /\ (cred_call.ret2 # 0 \/ cred_call.size # PidSize))
    => /\ cred_result.ok
       /\ cred_result = Ok(UCred(cred_call.uid, cred_call.gid, None))

\* C1, as the code has it: when getpeereid succeeds and the LOCAL_PEERPID
\* getsockopt fails or returns an unexpected size, peer_cred returns
\* Err(last_os_error()); an Ok of this back end carries the uid and gid of
\* getpeereid and pid: Some(pid), both calls having succeeded.
C1_PidFailureIsErr ==
    cred_call.backend = "mac" =>
       /\ (cred_call.ret = 0 /\ (cred_call.ret2 # 0 \/ cred_call.size # 4))
             => cred_result = [ok |-> FALSE, code |-> errno]
       /\ cred_result.ok =>
             /\ cred_call.ret = 0 /\ cred_call.ret2 = 0 /\ cred_call.size = 4
             /\ cred_result.val = [uid |-> cred_call.uid, gid |-> cred_call.gid,
                                   pid |-> Some(cred_call.pid)]

\* getpeereid yielded uid 1000 and gid 1000, the pid call failed: an Err
C1_Witness ==
    /\ cred_call.backend = "mac"
    /\ cred_call.ret = 0 /\ cred_call.uid = 1000 /\ cred_call.gid = 1000
    /\ cred_call.ret2 = -1
    /\ ~cred_result.ok

\* C2: with the socket-option back end the result is Ok(UCred{uid, gid,
\* pid: Some(pid)}), unpacked from the returned structure, exactly when getsockopt
\* returned 0 and the returned length is size_of::<ucred>(); otherwise it is Err.
C2_LinuxOkIffZeroAndExactSize ==
    cred_call.backend = "linux"
    => /\ cred_result.ok <=> (cred_call.ret = 0 /\ cred_call.size = 12)
       /\ cred_result.ok =>
             cred_result.val = [uid |-> cred_call.uid, gid |-> cred_call.gid,
                                pid |-> Some(cred_call.pid)]

\* a zero return code with a truncated structure was turned into an Err
C2_Witness ==
    /\ cred_call.backend = "linux"
    /\ cred_call.ret = 0
    /\ cred_call.size = 8
    /\ ~cred_result.ok

(***************************************************************************)
(* Properties of the error translator and the result converter (SpecErr)   *)
(***************************************************************************)
InterruptedFailure(h) == h.ret = -1 /\ h.errno = EINTR

\* C3: cvt_r invokes the operation again only after an interrupted failure and
\* returns the first result that is a success or another failure: every
\* invocation that was followed by another one yielded an interrupted failure,
\* the returned result is the conversion of the last invocation's result, which
\* is no interrupted failure, and the invocations number one more than the
\* interrupted failures.
C3_RetriesOnlyInterrupted ==
    /\ pc_r \in {"loop", "returned"} => calls = Len(hist)
    /\ \A i \in 1 .. Len(hist) :
          (i < Len(hist) \/ pc_r = "loop") => InterruptedFailure(hist[i])
    /\ pc_r = "returned" =>
          LET h == hist[Len(hist)]
              k == Cardinality({i \in 1 .. Len(hist) : InterruptedFailure(hist[i])})
          IN /\ ~InterruptedFailure(h)
             /\ calls = k + 1
             /\ h.ret # -1 => cvt_r_out = [ok |-> TRUE, val |-> h.ret]
             /\ h.ret = -1 => cvt_r_out = [ok |-> FALSE, code |-> h.errno]

\* interrupted twice, then 7: three invocations and Ok(7)
C3_Witness ==
    /\ pc_r = "returned"
    /\ calls = 3
    /\ InterruptedFailure(hist[1]) /\ InterruptedFailure(hist[2])
    /\ cvt_r_out = [ok |-> TRUE, val |-> 7]

\* C4: cvt(t) is Err carrying the current last-platform-error exactly when
\* t = -1, and Ok(t) with t unchanged for every other value, other negative
\* values included.
C4_CvtSentinelIsMinusOne ==
    last.op = "cvt"
    => /\ last.arg = -1 =>
             /\ last.out = [ok |-> FALSE, code |-> last.errno]
             /\ kind(last.out) = decode_error_kind(last.errno)
       /\ last.arg # -1 => last.out = [ok |-> TRUE, val |-> last.arg]

\* a negative value other than -1 came back as Ok
C4_Witness ==
    /\ last.op = "cvt"
    /\ last.arg < -1
    /\ last.out.ok
    /\ last.out.val = last.arg

\* the documented tables: <<raw code, kind>>
UnixTable ==
    { <<ECONNREFUSED, "ConnectionRefused">>, <<ECONNRESET, "ConnectionReset">>,
      <<EPERM, "PermissionDenied">>, <<EACCES, "PermissionDenied">>,
      <<EPIPE, "BrokenPipe">>, <<ENOTCONN, "NotConnected">>,
      <<ECONNABORTED, "ConnectionAborted">>, <<EADDRNOTAVAIL, "AddrNotAvailable">>,
      <<EADDRINUSE, "AddrInUse">>, <<ENOENT, "NotFound">>, <<EINTR, "Interrupted">>,
      <<EINVAL, "InvalidInput">>, <<ETIMEDOUT, "TimedOut">>,
      <<EEXIST, "AlreadyExists">>, <<ENOSYS, "Unsupported">>,
      <<ENOMEM, "OutOfMemory">>, <<EAGAIN, "WouldBlock">>,
      <<EWOULDBLOCK, "WouldBlock">> }

HermitTable ==
    { <<EACCES, "PermissionDenied">>, <<EADDRINUSE, "AddrInUse">>,
      <<EADDRNOTAVAIL, "AddrNotAvailable">>, <<11, "WouldBlock">>,
      <<ECONNABORTED, "ConnectionAborted">>, <<ECONNREFUSED, "ConnectionRefused">>,
      <<ECONNRESET, "ConnectionReset">>, <<EEXIST, "AlreadyExists">>,
      <<EINTR, "Interrupted">>, <<EINVAL, "InvalidInput">>, <<ENOENT, "NotFound">>,
      <<ENOTCONN, "NotConnected">>, <<EPERM, "PermissionDenied">>,
      <<EPIPE, "BrokenPipe">>, <<ETIMEDOUT, "TimedOut">> }

KindsOf(table, code) == {p[2] : p \in {q \in table : q[1] = code}}

AgreesWithTable(table, code, out) ==
    LET ks == KindsOf(table, code) IN
    /\ Cardinality(ks) <= 1
    /\ ks # {} => out \in ks
    /\ ks = {} => out = "Other"

\* C5: on each family decode_error_kind returns, for a raw code of the family's
\* table, the kind the table documents, and Other for every integer absent
\* from the table (0 and negative values included); no code has two kinds.
C5_DecodeFollowsTable ==
    /\ last.op = "decode_error_kind" => AgreesWithTable(UnixTable, last.arg, last.out)
    /\ last.op = "hermit_decode_error_kind" =>
          AgreesWithTable(HermitTable, last.arg, last.out)

\* ENOSYS decoded on the unix family
C5_Witness ==
    /\ last.op = "decode_error_kind"
    /\ last.arg = ENOSYS
    /\ last.out = "Unsupported"

EarlierCodes ==
    {ECONNREFUSED, ECONNRESET, EPERM, EACCES, EPIPE, ENOTCONN, ECONNABORTED,
     EADDRNOTAVAIL, EADDRINUSE, ENOENT, EINTR, EINVAL, ETIMEDOUT, EEXIST, ENOSYS,
     ENOMEM}

\* C6: whatever numbers the target gives EAGAIN and EWOULDBLOCK, equal or
\* distinct, neither being the code of an earlier table entry, the unix
\* decode_error_kind maps both to WouldBlock.
C6_BothAliasesWouldBlock ==
    (/\ last.op = "decode_error_kind"
     /\ last.arg \in {EAGAIN, EWOULDBLOCK}
     /\ {EAGAIN, EWOULDBLOCK} \cap EarlierCodes = {})
    => last.out = "WouldBlock"

\* a target where the aliases differ, and EWOULDBLOCK was decoded
C6_Witness ==
    /\ EAGAIN # EWOULDBLOCK
    /\ last.op = "decode_error_kind"
    /\ last.arg = EWOULDBLOCK
    /\ last.out = "WouldBlock"

(***************************************************************************)
(* sys/unix: init and cleanup.  pc names the call the bootstrap thread is  *)
(* about to make; trace lists the calls that have returned.                *)
(***************************************************************************)
Targets == {"linux", "macos", "vxworks", "fuchsia"}
\* cfg: the poll probe is compiled for every target but emscripten, fuchsia,
\* vxworks, macos, ios and redox; the fcntl probe for macos, ios and redox
PollTargets  == {"linux"}
FcntlTargets == {"macos"}
\* cfg: reset_sigpipe has a body on every target but emscripten and fuchsia
SigpipeTargets == {"linux", "macos", "vxworks"}

\* the body of init, in program order
init_sequence_args_first ==
    <<"sanitize_standard_fds", "reset_sigpipe", "args::init", "stack_overflow::init">>

init_sequence ==
    <<"sanitize_standard_fds", "reset_sigpipe", "stack_overflow::init", "args::init">>

\* the body of cleanup, in program order
cleanup_sequence_guard_first == <<"stack_overflow::cleanup", "args::cleanup">>

cleanup_sequence == <<"args::cleanup", "stack_overflow::cleanup">>

IndexOf(seq, x) == CHOOSE i \in 1 .. Len(seq) : seq[i] = x
\* where control goes when call x of body seq returns
After(seq, x, returned) ==
    IF IndexOf(seq, x) = Len(seq) THEN returned ELSE seq[IndexOf(seq, x) + 1]

\* where a call of init starts, n calls having been made before: nothing in init
\* looks at whether it ran before
init_entry_once(n) == IF n = 0 THEN init_sequence[1] ELSE "aborted"

init_entry(n) == init_sequence[1]

\* open returns the lowest descriptor not in use
LowestFree_highest(fds) == CHOOSE fd \in Fds \ fds : \A other \in Fds \ fds : fd >= other

LowestFree(fds) == CHOOSE fd \in Fds \ fds : \A other \in Fds \ fds : fd <= other

\* `if libc::open(..) == -1 { libc::abort(); }`: where control goes after open
after_open_ignores_failure(ret) == "reopen"

after_open(ret) == IF ret = -1 THEN "aborted" ELSE "reopen"

\* init is entered: by the entry stub, or a further time by a caller that breaks
\* the "called only once" contract
InitCall ==
    /\ pc \in {"start", "ready"}
    /\ initCalls < MaxInitCalls
    /\ pc' = init_entry(initCalls)
    /\ initCalls' = initCalls + 1
    /\ trace' = Append(trace, "init")
    /\ startfds' = openfds
    /\ reopened' = <<>>
    /\ revents' = [fd \in StdFds |-> FALSE]
    /\ idx' = 0
    /\ pollIntr' = 0
    /\ UNCHANGED <<target, openfds, sigpipe, guard, args, abortCause, errno>>
    /\ UNCHANGED <<hermitVars, takeVars, platformVars, errVars, credVars>>

\* sanitize_standard_fds is called: cfg_if picks its body
SanitizeEnter ==
    /\ pc = "sanitize_standard_fds"
    /\ idx' = 0
    /\ IF target \in PollTargets
       THEN pc' = "poll" /\ trace' = trace
       ELSE IF target \in FcntlTargets
       THEN pc' = "reopen" /\ trace' = trace
       ELSE /\ pc' = After(init_sequence, "sanitize_standard_fds", "ready")
            /\ trace' = Append(trace, "sanitize_standard_fds")
    /\ UNCHANGED <<target, openfds, startfds, revents, reopened, sigpipe, guard, args,
                   initCalls, pollIntr, abortCause, errno>>
    /\ UNCHANGED <<hermitVars, takeVars, platformVars, errVars, credVars>>

\* poll returned -1 with errno EINTR: `continue`
PollInterrupted ==
    /\ pc = "poll"
    /\ pollIntr < MaxPollIntr
    /\ pollIntr' = pollIntr + 1
    /\ errno' = EINTR
    /\ UNCHANGED <<target, pc, idx, openfds, startfds, revents, reopened, sigpipe,
                   guard, args, trace, initCalls, abortCause>>
    /\ UNCHANGED <<hermitVars, takeVars, platformVars, errVars, credVars>>

\* poll returned -1 with another errno: libc::abort()
PollFails ==
    /\ pc = "poll"
    /\ \E e \in {EINVAL, ENOMEM} : errno' = e
    /\ pc' = "aborted"
    /\ abortCause' = "poll"
    /\ UNCHANGED <<target, idx, openfds, startfds, revents, reopened, sigpipe,
                   guard, args, trace, initCalls, pollIntr>>
    /\ UNCHANGED <<hermitVars, takeVars, platformVars, errVars, credVars>>

\* poll returned: POLLNVAL is set in revents for each descriptor that is not open
PollReturns ==
    /\ pc = "poll"
    /\ revents' = [fd \in StdFds |-> fd \notin openfds]
    /\ idx' = 0
    /\ pc' = "reopen"
    /\ UNCHANGED <<target, openfds, startfds, reopened, sigpipe, guard, args, trace,
                   initCalls, pollIntr, abortCause, errno>>
    /\ UNCHANGED <<hermitVars, takeVars, platformVars, errVars, credVars>>

\* the fcntl probe looks at descriptor fd when the loop reaches it
Invalid(fd) == IF target \in FcntlTargets THEN fd \notin openfds ELSE revents[fd]

\* the descriptor is valid: `continue`
SanitizeSkip ==
    /\ pc = "reopen"
    /\ idx \in StdFds
    /\ ~Invalid(idx)
    /\ idx' = idx + 1
    /\ UNCHANGED <<target, pc, openfds, startfds, revents, reopened, sigpipe, guard,
                   args, trace, initCalls, pollIntr, abortCause, errno>>
    /\ UNCHANGED <<hermitVars, takeVars, platformVars, errVars, credVars>>

\* the descriptor is invalid: open("/dev/null", O_RDWR), abort if that fails
SanitizeReopen ==
    /\ pc = "reopen"
    /\ idx \in StdFds
    /\ Invalid(idx)
    /\ revents' = [revents EXCEPT ![idx] = TRUE]
    /\ \E ret \in {-1, LowestFree(openfds)} :
          /\ pc' = after_open(ret)
          /\ IF ret = -1
             THEN /\ \E e \in {ENOENT, ENOMEM} : errno' = e
                  /\ UNCHANGED <<openfds, reopened>>
             ELSE /\ openfds' = openfds \cup {ret}
                  /\ reopened' = Append(reopened, ret)
                  /\ errno' = errno
          /\ IF pc' = "aborted"
             THEN abortCause' = "open" /\ idx' = idx
             ELSE abortCause' = abortCause /\ idx' = idx + 1
    /\ UNCHANGED <<target, startfds, sigpipe, guard, args, trace, initCalls, pollIntr>>
    /\ UNCHANGED <<hermitVars, takeVars, platformVars, errVars, credVars>>

\* the loop over the three descriptors is over: sanitize_standard_fds returns
SanitizeReturn ==
    /\ pc = "reopen"
    /\ idx = 3
    /\ pc' = After(init_sequence, "sanitize_standard_fds", "ready")
    /\ trace' = Append(trace, "sanitize_standard_fds")
    /\ UNCHANGED <<target, idx, openfds, startfds, revents, reopened, sigpipe, guard,
                   args, initCalls, pollIntr, abortCause, errno>>
    /\ UNCHANGED <<hermitVars, takeVars, platformVars, errVars, credVars>>

\* assert!(signal(SIGPIPE, SIG_IGN) != SIG_ERR), where the cfg keeps it
ResetSigpipe ==
    /\ pc = "reset_sigpipe"
    /\ \E ret \in {"old handler", "SIG_ERR"} :
          IF target \in SigpipeTargets /\ ret = "SIG_ERR"
          THEN /\ pc' = "panicked"
               /\ UNCHANGED <<sigpipe, trace>>
          ELSE /\ pc' = After(init_sequence, "reset_sigpipe", "ready")
               /\ sigpipe' = IF target \in SigpipeTargets THEN "ignore" ELSE sigpipe
               /\ trace' = Append(trace, "reset_sigpipe")
    /\ UNCHANGED <<target, idx, openfds, startfds, revents, reopened, guard, args,
                   initCalls, pollIntr, abortCause, errno>>
    /\ UNCHANGED <<hermitVars, takeVars, platformVars, errVars, credVars>>

StackOverflowInit ==
    /\ pc = "stack_overflow::init"
    /\ guard' = TRUE
    /\ pc' = After(init_sequence, "stack_overflow::init", "ready")
    /\ trace' = Append(trace, "stack_overflow::init")
    /\ UNCHANGED <<target, idx, openfds, startfds, revents, reopened, sigpipe, args,
                   initCalls, pollIntr, abortCause, errno>>
    /\ UNCHANGED <<hermitVars, takeVars, platformVars, errVars, credVars>>

ArgsInit ==
    /\ pc = "args::init"
    /\ args' = TRUE
    /\ pc' = After(init_sequence, "args::init", "ready")
    /\ trace' = Append(trace, "args::init")
    /\ UNCHANGED <<target, idx, openfds, startfds, revents, reopened, sigpipe, guard,
                   initCalls, pollIntr, abortCause, errno>>
    /\ UNCHANGED <<hermitVars, takeVars, platformVars, errVars, credVars>>

\* cleanup is entered, after init has returned
CleanupCall ==
    /\ pc = "ready"
    /\ pc' = cleanup_sequence[1]
    /\ trace' = Append(trace, "cleanup")
    /\ UNCHANGED <<target, idx, openfds, startfds, revents, reopened, sigpipe, guard,
                   args, initCalls, pollIntr, abortCause, errno>>
    /\ UNCHANGED <<hermitVars, takeVars, platformVars, errVars, credVars>>

ArgsCleanup ==
    /\ pc = "args::cleanup"
    /\ args' = FALSE
    /\ pc' = After(cleanup_sequence, "args::cleanup", "terminated")
    /\ trace' = Append(trace, "args::cleanup")
    /\ UNCHANGED <<target, idx, openfds, startfds, revents, reopened, sigpipe, guard,
                   initCalls, pollIntr, abortCause, errno>>
    /\ UNCHANGED <<hermitVars, takeVars, platformVars, errVars, credVars>>

StackOverflowCleanup ==
    /\ pc = "stack_overflow::cleanup"
    /\ guard' = FALSE
    /\ pc' = After(cleanup_sequence, "stack_overflow::cleanup", "terminated")
    /\ trace' = Append(trace, "stack_overflow::cleanup")
    /\ UNCHANGED <<target, idx, openfds, startfds, revents, reopened, sigpipe, args,
                   initCalls, pollIntr, abortCause, errno>>
    /\ UNCHANGED <<hermitVars, takeVars, platformVars, errVars, credVars>>

InitBoot ==
    /\ EAGAIN = 11
    /\ EWOULDBLOCK = 11
    /\ errno = 0
    /\ target \in Targets
    /\ openfds \in SUBSET Fds
    /\ ErrIdle /\ CredIdle /\ BootIdle /\ HermitIdle /\ TakeIdle

NextBoot ==
    \/ InitCall
    \/ SanitizeEnter
    \/ PollInterrupted
    \/ PollFails
    \/ PollReturns
    \/ SanitizeSkip
    \/ SanitizeReopen
    \/ SanitizeReturn
    \/ ResetSigpipe
    \/ StackOverflowInit
    \/ ArgsInit
    \/ CleanupCall
    \/ ArgsCleanup
    \/ StackOverflowCleanup

SpecBoot == InitBoot /\ [][NextBoot]_vars

(***************************************************************************)
(* Properties of init and cleanup (under SpecBoot)                         *)
(***************************************************************************)
\* the state machine of the bootstrap, read off the position of the thread
BootstrapState ==
    CASE pc = "start" -> "Uninitialized"
      [] pc \in {"sanitize_standard_fds", "poll", "reopen", "reset_sigpipe",
                 "stack_overflow::init", "args::init"} -> "Initializing"
      [] pc = "ready" -> "Ready"
      [] pc \in {"args::cleanup", "stack_overflow::cleanup"} -> "TearingDown"
      [] pc = "terminated" -> "Terminated"
      [] pc = "aborted" -> "Aborted"
      [] OTHER -> "Panicked"

FourSteps ==
    <<"sanitize_standard_fds", "reset_sigpipe", "stack_overflow::init", "args::init">>

IsPrefix(a, b) == Len(a) <= Len(b) /\ a = SubSeq(b, 1, Len(a))

Positions(x) == {i \in 1 .. Len(trace) : trace[i] = x}
LastPos(x) == CHOOSE i \in Positions(x) : \A j \in Positions(x) : j <= i
\* the calls that returned since x was entered for the last time
Since(x) == IF Positions(x) = {} THEN <<>> ELSE SubSeq(trace, LastPos(x) + 1, Len(trace))
\* the steps the current (or last) call of init has completed
InitSteps ==
    IF Positions("cleanup") = {} THEN Since("init")
    ELSE SubSeq(trace, LastPos("init") + 1, LastPos("cleanup") - 1)

\* C7: init performs descriptor sanitization, the SIGPIPE reset, the stack guard
\* installation and the argument capture in this order, each after the one
\* before has returned, and the state is Ready only when all four have been
\* performed; an init that stopped short of that is never Ready.
C7_InitStepsInOrder ==
    /\ IsPrefix(InitSteps, FourSteps)
    /\ pc \in {"sanitize_standard_fds", "poll", "reopen"} => InitSteps = <<>>
    /\ pc = "reset_sigpipe" => InitSteps = SubSeq(FourSteps, 1, 1)
    /\ pc = "stack_overflow::init" => InitSteps = SubSeq(FourSteps, 1, 2)
    /\ pc = "args::init" => InitSteps = SubSeq(FourSteps, 1, 3)
    /\ BootstrapState = "Ready" =>
          /\ InitSteps = FourSteps
          /\ guard /\ args
          /\ target \in SigpipeTargets => sigpipe = "ignore"
    /\ InitSteps # FourSteps => BootstrapState # "Ready"

\* a first init on linux that reopened a descriptor and returned
C7_Witness ==
    /\ BootstrapState = "Ready"
    /\ initCalls = 1
    /\ target = "linux"
    /\ Len(reopened) > 0
    /\ trace = <<"init">> \o FourSteps

\* C8: the sanitization opens /dev/null once for each standard descriptor the
\* probe reports invalid and never for one reported valid, which stays open; a
\* failed open aborts at once: no later step of init has run, Ready is not
\* reached, and an aborted process stays aborted.
C8_ReopenOrAbort ==
    /\ Len(reopened) = Cardinality({fd \in StdFds : fd < idx /\ revents[fd]})
    /\ \A fd \in StdFds : (fd < idx /\ ~revents[fd]) => (fd \in startfds /\ fd \in openfds)
    /\ abortCause # "none" => BootstrapState = "Aborted"
    /\ abortCause = "open" =>
          /\ InitSteps = <<>>
          /\ revents[idx]
          /\ initCalls = 1 => (sigpipe = "default" /\ ~guard /\ ~args)

\* descriptor 0 was reopened and the reopen of a later descriptor failed
C8_Witness ==
    /\ BootstrapState = "Aborted"
    /\ abortCause = "open"
    /\ Len(reopened) = 1
    /\ idx > 0

C10_CleanupReverses ==
    BootstrapState \in {"TearingDown", "Terminated"} =>
       /\ SubSeq(InitSteps, 3, 4) = <<"stack_overflow::init", "args::init">>
       /\ pc = "args::cleanup" => (Since("cleanup") = <<>> /\ args /\ guard)
       /\ pc = "stack_overflow::cleanup" =>
             (Since("cleanup") = <<"args::cleanup">> /\ ~args /\ guard)
       /\ pc = "terminated" =>
             /\ Since("cleanup") = <<"args::cleanup", "stack_overflow::cleanup">>
             /\ ~args /\ ~guard
       /\ sigpipe = IF target \in SigpipeTargets THEN "ignore" ELSE "default"
       /\ openfds = startfds \cup {reopened[i] : i \in 1 .. Len(reopened)}

\* cleanup returned, SIGPIPE still ignored
C10_Witness ==
    /\ BootstrapState = "Terminated"
    /\ sigpipe = "ignore"
    /\ ~args /\ ~guard

\* C11: once init has begun it ends Ready or Aborted and in no other way:
\* whenever init has been entered and is no longer running, it has returned
\* after all four steps (the state is Ready, or the teardown that follows it)
\* or the process has aborted.
C11_InitEndsReadyOrAborted ==
    (initCalls > 0 /\ BootstrapState # "Initializing")
    => BootstrapState \in {"Ready", "TearingDown", "Terminated", "Aborted"}

(***************************************************************************)
(* cvt_r on its own, the thread inside the loop always going on to the     *)
(* next turn (weak fairness of the loop's turn)                            *)
(***************************************************************************)
NextCvtR == CvtRCall \/ CvtRLoop

SpecCvtR == InitErr /\ [][NextCvtR]_vars /\ WF_vars(CvtRLoop)

AllInterrupted == \A i \in 1 .. Len(hist) : InterruptedFailure(hist[i])

\* C12: cvt_r has no retry cap and ends exactly when the operation stops being
\* interrupted: a turn of the loop returns if and only if the invocation did
\* not yield an interrupted failure, whatever the number of interruptions
\* before it; while the loop is on, a further invocation is always possible;
\* and the loop goes on until it returns (or the model's MaxCalls invocations,
\* all interrupted, are used up).
C12_NoRetryCap ==
    /\ [][pc_r = "loop" =>
            (pc_r' = "returned" <=> ~InterruptedFailure(hist'[Len(hist')]))]_vars
    /\ [](pc_r = "loop" => AllInterrupted)
    /\ []((pc_r = "loop" /\ calls < MaxCalls) => ENABLED CvtRLoop)
    /\ (pc_r = "loop") ~> (pc_r = "returned" \/ (calls = MaxCalls /\ AllInterrupted))

\* as many interruptions in a row as the model explores, and still in the loop
C12_Witness ==
    /\ pc_r = "loop"
    /\ calls = MaxCalls
    /\ Len(hist) = MaxCalls
    /\ AllInterrupted

(***************************************************************************)
(* sys/hermit: unsupported, unsupported_err, hashmap_random_keys, init,    *)
(* cleanup, cvt.  hermit_calls lists the calls the last operation made     *)
(* into the platform and into the other modules of the back end.           *)
(***************************************************************************)
\* io::Error::new_const(kind, &message)
ConstError(k, message) == [ok |-> FALSE, kind |-> k, message |-> message]

unsupported_err_other ==
    ConstError("Other", "operation not supported on HermitCore yet")

unsupported_err ==
    ConstError("Unsupported", "operation not supported on HermitCore yet")

\* Err(unsupported_err())
unsupported == unsupported_err

\* `if result < 0 { Err(from_raw_os_error(-result)) } else { Ok(result as usize) }`
hermit_cvt(result) == IF result < 0 THEN Err(-result) ELSE Ok(result)

hermit_hashmap_random_keys == <<1, 2>>

\* the values of result the model applies the hermit cvt to
HermitResults == {-111, -22, -4, -1, 0, 1, 42}

HermitUnsupported ==
    /\ hermit_last' = [op |-> "unsupported", arg |-> 0, out |-> unsupported]
    /\ hermit_calls' = <<>>
    /\ UNCHANGED <<takeVars, platformVars, errno, errVars, credVars, bootVars>>

HermitCvt ==
    /\ \E result \in HermitResults :
          hermit_last' = [op |-> "cvt", arg |-> result, out |-> hermit_cvt(result)]
    /\ hermit_calls' = <<>>
    /\ UNCHANGED <<takeVars, platformVars, errno, errVars, credVars, bootVars>>

HermitRandomKeys ==
    /\ hermit_last' = [op |-> "hashmap_random_keys", arg |-> 0,
                       out |-> [val |-> hermit_hashmap_random_keys]]
    /\ hermit_calls' = <<>>
    /\ UNCHANGED <<takeVars, platformVars, errno, errVars, credVars, bootVars>>

\* `let _ = net::init(); args::init(argc, argv);`: whatever net::init returns
\* is dropped
HermitInit ==
    /\ \E net_ok \in BOOLEAN :
          hermit_last' = [op |-> "init", arg |-> 0, out |-> [unit |-> TRUE]]
    /\ hermit_calls' = <<"net::init", "args::init">>
    /\ UNCHANGED <<takeVars, platformVars, errno, errVars, credVars, bootVars>>

HermitCleanup ==
    /\ hermit_last' = [op |-> "cleanup", arg |-> 0, out |-> [unit |-> TRUE]]
    /\ hermit_calls' = <<"args::cleanup">>
    /\ UNCHANGED <<takeVars, platformVars, errno, errVars, credVars, bootVars>>

InitHermit ==
    /\ LinuxPlatform
    /\ errno = 0
    /\ ErrIdle /\ CredIdle /\ BootIdle /\ HermitIdle /\ TakeIdle

NextHermit ==
    \/ HermitUnsupported
    \/ HermitCvt
    \/ HermitRandomKeys
    \/ HermitInit
    \/ HermitCleanup
    \/ HermitDecode

SpecHermit == InitHermit /\ [][NextHermit]_vars

HermitOps == {"unsupported", "cvt", "hashmap_random_keys", "init", "cleanup"}

C14_CvtNzCarriesTheCode ==
    last.op = "cvt_nz" =>
       /\ last.out.ok <=> last.arg = 0
       /\ last.arg = 0 => last.out = [ok |-> TRUE, val |-> <<>>]
       /\ last.arg # 0 =>
             /\ last.out = [ok |-> FALSE, code |-> last.arg]
             /\ kind(last.out) = decode_error_kind(last.arg)

\* errno held EINTR and cvt_nz(ENOENT) came back with ENOENT
C14_Witness ==
    /\ last.op = "cvt_nz"
    /\ last.arg = ENOENT
    /\ errno = EINTR
    /\ last.errno = EINTR
    /\ last.out = [ok |-> FALSE, code |-> ENOENT]

(***************************************************************************)
(* core::iter::adapters::Take: next and nth.  usize arithmetic is done     *)
(* modulo MaxUsize + 1; `wrapped` tells that a result left 0 ..= MaxUsize  *)
(* (a panic in a build with overflow checks, a wrapped value without).     *)
(***************************************************************************)
Usize == 0 .. MaxUsize
usize_add(a, b) == [val |-> (a + b) % (MaxUsize + 1), wrapped |-> a + b > MaxUsize]
usize_sub(a, b) == [val |-> (a - b) % (MaxUsize + 1), wrapped |-> a < b]

\* Each gives the new self.n, the call made on the inner iterator ("next",
\* "nth" with argument k, or "none"), whether that call's result is what Take
\* returns, and whether the arithmetic wrapped.
Take_next(self_n) ==
    IF self_n # 0
    THEN [n |-> usize_sub(self_n, 1).val, inner |-> "next", k |-> 0, pass |-> TRUE,
          wrapped |-> usize_sub(self_n, 1).wrapped]
    ELSE [n |-> self_n, inner |-> "none", k |-> 0, pass |-> FALSE, wrapped |-> FALSE]

Take_nth_off_by_one(self_n, n) ==
    IF self_n >= n
    THEN [n |-> usize_sub(self_n, usize_add(n, 1).val).val, inner |-> "nth", k |-> n,
          pass |-> TRUE,
          wrapped |-> usize_add(n, 1).wrapped
                      \/ usize_sub(self_n, usize_add(n, 1).val).wrapped]
    ELSE IF self_n > 0
    THEN [n |-> 0, inner |-> "nth", k |-> usize_sub(self_n, 1).val, pass |-> FALSE,
          wrapped |-> usize_sub(self_n, 1).wrapped]
    ELSE [n |-> self_n, inner |-> "none", k |-> 0, pass |-> FALSE, wrapped |-> FALSE]

Take_nth(self_n, n) ==
    IF self_n > n
    THEN [n |-> usize_sub(self_n, usize_add(n, 1).val).val, inner |-> "nth", k |-> n,
          pass |-> TRUE,
          wrapped |-> usize_add(n, 1).wrapped
                      \/ usize_sub(self_n, usize_add(n, 1).val).wrapped]
    ELSE IF self_n > 0
    THEN [n |-> 0, inner |-> "nth", k |-> usize_sub(self_n, 1).val, pass |-> FALSE,
          wrapped |-> usize_sub(self_n, 1).wrapped]
    ELSE [n |-> self_n, inner |-> "none", k |-> 0, pass |-> FALSE, wrapped |-> FALSE]

\* The inner iterator hands out its items 1 .. inner_len in order, then None.
\* nth(k) runs next until k items are skipped or None comes, then once more.
Min(a, b) == IF a <= b THEN a ELSE b
InnerAfter(call, k) ==
    IF call = "none" THEN [pos |-> inner_pos, calls |-> inner_calls, ret |-> None]
    ELSE LET skip == IF call = "next" THEN 0 ELSE k
             left == inner_len - inner_pos
         IN IF skip < left
            THEN [pos |-> inner_pos + skip + 1, calls |-> inner_calls + skip + 1,
                  ret |-> Some(inner_pos + skip + 1)]
            ELSE [pos |-> inner_len, calls |-> inner_calls + Min(skip, left) + 1,
                  ret |-> None]

\* Take applies step, the outcome of Take_next or Take_nth
TakeApply(step) ==
    LET in == InnerAfter(step.inner, step.k)
        ret == IF step.pass THEN in.ret ELSE None
    IN /\ take_n' = step.n
       /\ take_wrapped' = (take_wrapped \/ step.wrapped)
       /\ inner_pos' = in.pos
       /\ inner_calls' = in.calls
       /\ take_ret' = ret
       /\ yielded' = IF ret = None THEN yielded ELSE Append(yielded, ret[1])
       /\ UNCHANGED <<take_n0, inner_len>>

TakeNext ==
    /\ TakeApply(Take_next(take_n))
    /\ UNCHANGED <<hermitVars, platformVars, errno, errVars, credVars, bootVars>>

TakeNth ==
    /\ \E n \in Usize : TakeApply(Take_nth(take_n, n))
    /\ UNCHANGED <<hermitVars, platformVars, errno, errVars, credVars, bootVars>>

\* Take::new(iter, n), for every count and every length of the inner iterator
InitTake ==
    /\ LinuxPlatform
    /\ errno = 0
    /\ ErrIdle /\ CredIdle /\ BootIdle /\ HermitIdle
    /\ take_n0 \in Usize
    /\ take_n = take_n0
    /\ inner_len \in 0 .. MaxLen
    /\ inner_pos = 0
    /\ inner_calls = 0
    /\ yielded = <<>>
    /\ take_ret = None
    /\ take_wrapped = FALSE

NextTake == TakeNext \/ TakeNth

SpecTake == InitTake /\ [][NextTake]_vars

\* C15: under any sequence of next and nth calls, Take yields only items among
\* the first n of the inner iterator, in order and at most n of them; the
\* remaining count never underflows; the inner iterator is advanced at most n
\* times in all; and once the remaining count is 0, every further call returns
\* None and leaves the inner iterator alone.
C15_TakeStaysWithinN ==
    /\ [](/\ ~take_wrapped
          /\ take_n \in 0 .. take_n0
          /\ inner_calls + take_n <= take_n0
          /\ Len(yielded) <= take_n0
          /\ \A i \in 1 .. Len(yielded) :
                /\ yielded[i] \in 1 .. take_n0
                /\ yielded[i] <= inner_len
                /\ \A j \in 1 .. Len(yielded) : i < j => yielded[i] < yielded[j])
    /\ [][take_n = 0 =>
            /\ take_n' = 0
            /\ take_ret' = None
            /\ yielded' = yielded
            /\ inner_pos' = inner_pos
            /\ inner_calls' = inner_calls]_vars

\* nth(2) and then next on a Take of 4: items 3 and 4, count used up
C15_Witness ==
    /\ take_n0 = 4
    /\ inner_len = 4
    /\ yielded = <<3, 4>>
    /\ take_n = 0
    /\ inner_calls = 4

(***************************************************************************)
(* What the descriptor sanitization leaves behind                          *)
(***************************************************************************)
SanitizationDone == Len(InitSteps) >= 1 /\ InitSteps[1] = "sanitize_standard_fds"

\* the standard descriptors below i that were closed when init was entered
ClosedBelow(i) == {fd \in StdFds : fd < i /\ fd \notin startfds}

\* seq lists exactly the members of S, in ascending order
AscendingListOf(seq, S) ==
    /\ {seq[i] : i \in 1 .. Len(seq)} = S
    /\ \A i, j \in 1 .. Len(seq) : i < j => seq[i] < seq[j]

====
